---- MODULE Spec2Model ----
(***************************************************************************)
(* A model of js/schema.js: the schema builder.  JavaScript values are     *)
(* records tagged by the field k; a JavaScript string is the sequence of   *)
(* its characters; a schema node is a JavaScript array [tag, options,      *)
(* ...params] that carries its own properties (the magic property         *)
(* '_schema', an own toString installed by refHandler, the method to of a  *)
(* function schema).  A thrown exception is the value Err(name), which     *)
(* every caller passes on unchanged.                                       *)
(***************************************************************************)
EXTENDS Integers, Sequences, FiniteSets

VARIABLES cache, idCounter, last

vars == <<cache, idCounter, last>>

-----------------------------------------------------------------------------
(* JavaScript values *)

Undefined == [k |-> "undefined"]
Null == [k |-> "null"]
Bool(b) == [k |-> "boolean", b |-> b]
\* a callable, () => {}
Fun == [k |-> "function"]
Str(s) == [k |-> "string", s |-> s]
Num(n) == [k |-> "number", n |-> n]
\* a plain mapping: its own enumerable entries, in enumeration order
Obj(entries) == [k |-> "object", entries |-> entries]
\* an array; the three flags are its own non-index properties
Arr(items) ==
    [k |-> "array", items |-> items, schemaMagic |-> FALSE, toStr |-> FALSE, to |-> FALSE]
\* a thrown exception
Err(name) == [k |-> "error", name |-> name]

isErr(v) == v.k = "error"
UnknownSchemaValue == Err("Unknown schema value")
SyntaxError == Err("SyntaxError")
TypeError == Err("TypeError")

\* the first exception of a sequence of results, evaluated left to right
HasErr(rs) == \E i \in DOMAIN rs : isErr(rs[i])
FirstErr(rs) == rs[CHOOSE i \in DOMAIN rs : isErr(rs[i]) /\ \A j \in 1..(i - 1) : ~isErr(rs[j])]

\* F(e), with e evaluated once and for all
Once(e, F(_)) == CHOOSE r \in {F(x) : x \in {e}} : TRUE

\* seq[i] of a JavaScript array: undefined past its end (i counts from 1)
At(seq, i) == IF i \in DOMAIN seq THEN seq[i] ELSE Undefined

-----------------------------------------------------------------------------
(* The words of the source, as character sequences *)

magic == <<"_", "_", "$", "$", "_", "$", "_", "$", "$">>
wString == <<"s", "t", "r", "i", "n", "g">>
wNumber == <<"n", "u", "m", "b", "e", "r">>
wValue == <<"v", "a", "l", "u", "e">>
wPattern == <<"p", "a", "t", "t", "e", "r", "n">>
wInterval == <<"i", "n", "t", "e", "r", "v", "a", "l">>
wOr == <<"o", "r">>
wTuple == <<"t", "u", "p", "l", "e">>
wList == <<"l", "i", "s", "t">>
wFunction == <<"f", "u", "n", "c", "t", "i", "o", "n">>
wAnnotation == <<"a", "n", "n", "o", "t", "a", "t", "i", "o", "n">>
wObject == <<"o", "b", "j", "e", "c", "t">>
wDict == <<"d", "i", "c", "t">>
wBoolean == <<"b", "o", "o", "l", "e", "a", "n">>
wNull == <<"n", "u", "l", "l">>
wTitle == <<"t", "i", "t", "l", "e">>
wDescription == <<"d", "e", "s", "c", "r", "i", "p", "t", "i", "o", "n">>
wRole == <<"r", "o", "l", "e">>
wLength == <<"l", "e", "n", "g", "t", "h">>

-----------------------------------------------------------------------------
(* Plain mappings *)

EmptyObj == Obj(<<>>)
HasKey(o, key) == \E i \in DOMAIN o.entries : o.entries[i][1] = key
Get(o, key) ==
    IF HasKey(o, key)
    THEN o.entries[CHOOSE i \in DOMAIN o.entries : o.entries[i][1] = key][2]
    ELSE Undefined
\* o[key] = v: an existing key keeps its place, a new key goes last
Put(o, key, v) ==
    IF HasKey(o, key)
    THEN Obj([i \in DOMAIN o.entries |->
                 IF o.entries[i][1] = key THEN <<key, v>> ELSE o.entries[i]])
    ELSE Obj(Append(o.entries, <<key, v>>))

RECURSIVE extend(_, _)
\* _.extend(dst, src): every own key of src, undefined values included
extend(dst, src) ==
    IF src.entries = <<>> THEN dst
    ELSE extend(Put(dst, Head(src.entries)[1], Head(src.entries)[2]), Obj(Tail(src.entries)))

NotUndefined(e) == e[2] # Undefined
\* _.pick(obj, v => v !== undefined)
pickDefined(o) == Obj(SelectSeq(o.entries, NotUndefined))

-----------------------------------------------------------------------------
(* Text and regular expressions *)

Digit == <<"0", "1", "2", "3", "4", "5", "6", "7", "8", "9">>
RECURSIVE NumberToString(_)
\* n + '': the decimal numeral of a natural number
NumberToString(n) ==
    IF n < 10 THEN <<Digit[n + 1]>> ELSE NumberToString(n \div 10) \o <<Digit[(n % 10) + 1]>>

\* k.indexOf(sub): the first position (from 0) where sub occurs in k, or -1
indexOf(k, sub) ==
    LET hits == {i \in 0..(Len(k) - Len(sub)) : SubSeq(k, i + 1, i + Len(sub)) = sub}
    IN IF hits = {} THEN -1 ELSE CHOOSE i \in hits : \A j \in hits : i <= j

\* k.slice(from, to), both counted from 0
slice(k, from, to) == SubSeq(k, from + 1, to)

\* Whether new RegExp(text) accepts text.  Of the characters the model's keys
\* are made of, only '(' is a syntax character that needs a partner: a text
\* holding one is an unterminated group.
RegExpSyntaxOk(text) == \A i \in DOMAIN text : text[i] # "("

RECURSIVE EscapeRegExpPattern(_)
\* the source of a regular expression built from text: '/' is escaped
EscapeRegExpPattern(text) ==
    IF text = <<>> THEN <<>>
    ELSE (IF Head(text) = "/" THEN <<"\\", "/">> ELSE <<Head(text)>>)
             \o EscapeRegExpPattern(Tail(text))

\* new RegExp(text): throws on a malformed pattern; the source of the empty
\* pattern is '(?:)'
RegExp(text) ==
    IF ~RegExpSyntaxOk(text) THEN SyntaxError
    ELSE [k |-> "regexp",
          source |-> IF text = <<>> THEN <<"(", "?", ":", ")">> ELSE EscapeRegExpPattern(text)]

-----------------------------------------------------------------------------
(* Variants *)

isArray(v) == v.k = "array"
\* _.isObject: objects and functions, not null
isObject(v) == v.k \in {"object", "array", "function", "regexp"}

isSchema(value) == isArray(value) /\ value.schemaMagic

\* mutant of bless: the marker is not set
bless_forgets(schema) == schema

bless(schema) == [schema EXCEPT !.schemaMagic = TRUE]

\* blessFn(fn)(...args), given r = fn(...args): an exception passes through
blessFn(r) == Once(r, LAMBDA x : IF isErr(x) THEN x ELSE bless(x))

-----------------------------------------------------------------------------
(* Reference keys *)

\* mutant of uniqueId: the counter is left out of the token
uniqueId_fixed(prefix, id) == prefix \o <<"1">>

\* _.uniqueId(magic) after the counter has been incremented to id
uniqueId(prefix, id) == prefix \o NumberToString(id)

\* mutant of cacheSet: the cache is started afresh at each coercion
cacheSet_evicts(c, id, node) == [t \in {id} |-> node]

\* cache[id] = node
cacheSet(c, id, node) == [t \in DOMAIN c \cup {id} |-> IF t = id THEN node ELSE c[t]]

\* cache[k]
cacheGet(c, key) == IF key \in DOMAIN c THEN c[key] ELSE Undefined

refHandler(schema) == [schema EXCEPT !.toStr = TRUE]

\* mutant of keyType: no key is a reference
keyType_noReference(k) ==
    IF Len(k) > 0 /\ k[1] = "/" /\ k[Len(k)] = "/" THEN "pattern" ELSE "string"

\* mutant of keyType: the prefix counts wherever it occurs in the key
keyType_anywhere(k) ==
    IF Len(k) > 0 /\ k[1] = "/" /\ k[Len(k)] = "/" THEN "pattern"
    ELSE IF indexOf(k, magic) >= 0 THEN "reference" ELSE "string"

keyType(k) ==
    IF Len(k) > 0 /\ k[1] = "/" /\ k[Len(k)] = "/" THEN "pattern"
    ELSE IF indexOf(k, magic) = 0 THEN "reference" ELSE "string"

-----------------------------------------------------------------------------
(* The builders.  c is the cache at the time of the call. *)

RECURSIVE literals(_, _)

string(value) ==
    LET val == IF value.k = "string" THEN Arr(<<Str(wValue), value>>)
               ELSE IF value.k = "regexp" THEN Arr(<<Str(wPattern), value>>)
               ELSE Arr(<<>>)
    IN Arr(<<Str(wString), EmptyObj, val>>)

number(value) ==
    LET val == IF isArray(value) THEN Arr(<<Str(wInterval), value>>)
               ELSE IF value.k = "number" THEN Arr(<<Str(wValue), value>>)
               ELSE Arr(<<>>)
    IN Arr(<<Str(wNumber), EmptyObj, val>>)

S_string(value) == blessFn(string(value))
S_number(value) == blessFn(number(value))

\* mutant of mapLiterals: a value that cannot be coerced is left out
mapLiterals_skips(c, schemas) ==
    Once([i \in DOMAIN schemas |-> literals(c, schemas[i])] \o <<>>,
         LAMBDA rs : Arr(SelectSeq(rs, LAMBDA r : ~isErr(r))))

\* _.map(schemas, literals), or the first exception
mapLiterals(c, schemas) ==
    Once([i \in DOMAIN schemas |-> literals(c, schemas[i])] \o <<>>,
         LAMBDA rs : IF HasErr(rs) THEN FirstErr(rs) ELSE Arr(rs))

\* [tag, {}, ...rest], or the exception rest is
variant(tag, rest) ==
    Once(rest, LAMBDA x : IF isErr(x) THEN x ELSE Arr(<<Str(tag), EmptyObj>> \o x.items))

or(c, schemas) == variant(wOr, mapLiterals(c, schemas))
array(c, schemas) == variant(wTuple, mapLiterals(c, schemas))
arrayOf(c, schema) == variant(wList, mapLiterals(c, <<schema>>))

fn(c, schemas) ==
    Once(mapLiterals(c, schemas),
         LAMBDA rest :
             IF isErr(rest) THEN rest
             ELSE [Arr(<<Str(wFunction), EmptyObj, Null>> \o rest.items) EXCEPT !.to = TRUE])

\* s.to(schema), before blessing
to(s, schema) == Arr(slice(s.items, 0, 2) \o <<schema>> \o slice(s.items, 3, Len(s.items)))

S_or(c, schemas) == blessFn(or(c, schemas))
S_array(c, schemas) == blessFn(array(c, schemas))
S_arrayOf(c, schema) == blessFn(arrayOf(c, schema))
S_fn(c, schemas) == blessFn(fn(c, schemas))
S_to(s, schema) == blessFn(to(s, schema))

\* the pair key(schema, k) returns
key(c, schema, k) ==
    LET ks == IF keyType(k) = "pattern"
              THEN Once(RegExp(slice(k, 1, Len(k) - 1)),
                        LAMBDA re : IF isErr(re) THEN re ELSE S_string(re))
              ELSE IF keyType(k) = "string" THEN S_string(Str(k))
              ELSE cacheGet(c, k)
    IN Once(<<ks, literals(c, schema)>>,
            LAMBDA p : IF isErr(p[1]) THEN p[1] ELSE IF isErr(p[2]) THEN p[2] ELSE Arr(p))

\* coll.length as underscore's isArrayLike reads it
lengthOf(coll) ==
    IF coll.k = "array" THEN Num(Len(coll.items))
    ELSE IF coll.k = "string" THEN Num(Len(coll.s))
    ELSE IF coll.k = "function" THEN Num(0)
    ELSE IF coll.k = "object" THEN Get(coll, wLength)
    ELSE Undefined

isArrayLike(coll) == lengthOf(coll).k = "number" /\ lengthOf(coll).n >= 0

\* _.map(coll, key).  An array-like collection is walked by index: key gets
\* a number for k, and k.indexOf is not a function.  Anything else is walked
\* by its own keys.
mapKey(c, coll) ==
    IF isArrayLike(coll)
    THEN (IF lengthOf(coll).n = 0 THEN Arr(<<>>) ELSE TypeError)
    ELSE IF coll.k = "object"
    THEN Once([i \in DOMAIN coll.entries |->
                  key(c, coll.entries[i][2], coll.entries[i][1])] \o <<>>,
              LAMBDA rs : IF HasErr(rs) THEN FirstErr(rs) ELSE Arr(rs))
    ELSE Arr(<<>>)

\* _.range(coll.length / n).map(i => coll.slice(i * n, (i + 1) * n))
partitionN(coll, n) ==
    [i \in 1..((Len(coll) + n - 1) \div n) |->
        slice(coll, (i - 1) * n, IF i * n < Len(coll) THEN i * n ELSE Len(coll))]

objargs(c, type, args) ==
    IF Len(args) = 1
    THEN variant(type, mapKey(c, args[1]))
    ELSE variant(type,
                 Once([i \in DOMAIN partitionN(args, 2) |->
                          mapLiterals(c, partitionN(args, 2)[i])] \o <<>>,
                      LAMBDA rs : IF HasErr(rs) THEN FirstErr(rs) ELSE Arr(rs)))

object(c, args) == objargs(c, wObject, args)
dict(c, args) == objargs(c, wDict, args)
S_object(c, args) == blessFn(object(c, args))
S_dict(c, args) == blessFn(dict(c, args))
\* methods.objectOf = methods.dict
S_objectOf(c, args) == S_dict(c, args)

\* merge, dropping undefined props
m(o1, o2) == pickDefined(extend(extend(EmptyObj, o1), o2))

desc(c, args) ==
    LET a == IF Len(args) = 2 THEN <<Undefined>> \o args ELSE args
    IN Once(literals(c, At(a, 3)),
            LAMBDA lit :
                IF isErr(lit) THEN lit
                ELSE refHandler(Arr(<<At(lit.items, 1),
                                      m(Obj(<<<<wTitle, At(a, 1)>>,
                                              <<wDescription, At(a, 2)>>>>),
                                        At(lit.items, 2))>>
                                    \o slice(lit.items, 2, Len(lit.items)))))

\* what [type, opts, ...rest] destructures: the elements of an array, the
\* characters of a string; nothing else among the model's values is iterable
iterate(v) ==
    IF isArray(v) THEN Arr(v.items)
    ELSE IF v.k = "string" THEN Arr([i \in DOMAIN v.s |-> Str(<<v.s[i]>>)])
    ELSE TypeError

role(r, schema) ==
    Once(iterate(schema),
         LAMBDA it :
             IF isErr(it) THEN it
             ELSE Arr(<<Str(wAnnotation), Obj(<<<<wRole, r>>>>),
                        Arr(<<At(it.items, 1), At(it.items, 2)>>
                                \o slice(it.items, 2, Len(it.items)))>>))

S_desc(c, args) == blessFn(desc(c, args))
S_role(r, schema) == blessFn(role(r, schema))
S_boolean == bless(Arr(<<Str(wBoolean), EmptyObj>>))
S_nullval == bless(Arr(<<Str(wNull), EmptyObj>>))

\* Allow literal shorthand for some schemas.
literals(c, value) ==
    IF isSchema(value) THEN value
    ELSE IF value.k = "string" THEN S_string(value)
    ELSE IF value.k = "number" THEN S_number(value)
    ELSE IF isArray(value)
    THEN (IF Len(value.items) = 1 THEN S_arrayOf(c, value.items[1])
          ELSE S_array(c, value.items))
    ELSE IF isObject(value) /\ ~isArray(value) /\ value.k # "function"
    THEN (IF (IF value.k = "object" THEN Len(value.entries) ELSE 0) = 1
          THEN S_objectOf(c, <<value>>) ELSE S_object(c, <<value>>))
    ELSE UnknownSchemaValue

-----------------------------------------------------------------------------
(* The caller's side: an object literal whose keys may be computed *)

\* The toString refHandler installs, called on node with the counter at id
\* and the cache c: the token it returns, the counter and the cache it leaves
toString(id, c, node) ==
    [token |-> uniqueId(magic, id + 1),
     id |-> id + 1,
     cache |-> cacheSet(c, uniqueId(magic, id + 1), node)]

\* an object literal: entries <<key expression, value>>, where a key
\* expression is a string or, in a computed key, a node desc returned
Literal(entries) == [k |-> "literal", entries |-> entries]

RECURSIVE evalEntries(_, _)
\* the entries of a literal, evaluated left to right onto acc
evalEntries(entries, acc) ==
    IF entries = <<>> THEN acc
    ELSE LET e == Head(entries)
         IN IF e[1].k = "string"
            THEN evalEntries(Tail(entries),
                             [acc EXCEPT !.obj = Put(acc.obj, e[1].s, e[2])])
            ELSE LET t == toString(acc.id, acc.cache, e[1])
                 IN evalEntries(Tail(entries),
                                [id |-> t.id, cache |-> t.cache,
                                 obj |-> Put(acc.obj, t.token, e[2])])

evalLiteral(lit, id, c) == evalEntries(lit.entries, [id |-> id, cache |-> c, obj |-> EmptyObj])

\* how many keys of a literal are computed
computedKeys(lit) == Cardinality({i \in DOMAIN lit.entries : lit.entries[i][1].k # "string"})

-----------------------------------------------------------------------------
(* Bounds and the values the consumer calls the builders with *)

\* tokens minted in one run
MaxMint == 2
\* arguments of a call of or, array, fn, object or dict
MaxArgs == 2
\* entries of an object literal
MaxEntries == 2

SeqsUpTo(S, n) == UNION {[1..i -> S] : i \in 0..n}

NoCache == [t \in {} |-> Undefined]

tA == <<"a">>
tT == <<"T">>
tD == <<"D">>
tNewT == <<"T", "2">>
tNewD == <<"D", "2">>

\* nodes earlier calls returned
nString == S_string(Undefined)
nFive == S_number(Num(5))
nFn == S_fn(NoCache, <<Str(tA), nFive>>)
nFn0 == S_fn(NoCache, <<>>)
nRole == S_role(Str(<<"m">>), nString)
nTitled == S_desc(NoCache, <<Str(tT), Str(tD), nString>>)
nTitledFn == S_desc(NoCache, <<Str(tT), Str(tD), nFn>>)
nDescribed == S_desc(NoCache, <<Str(tD), nFive>>)

\* the nodes that went through refHandler
RefNodes == {nTitled, nTitledFn, nDescribed}
Nodes == RefNodes \cup {nString, nFive, nFn, nRole, S_boolean}

\* values literals rejects
BadValues == {Fun, Bool(TRUE), Null, Undefined}

Values ==
    BadValues \cup Nodes
    \cup {Str(tA), Str(<<>>), Num(5), Num(0), RegExp(tA)}
    \cup {Arr(<<>>), Arr(<<Str(tA)>>), Arr(<<Fun>>), Arr(<<Str(tA), Num(5)>>),
          Arr(<<nFive, Null>>), Arr(<<Arr(<<nString>>)>>)}

ArgValues == {Str(tA), Fun, nFive, nTitled, Arr(<<Num(5)>>)}

\* textual keys: plain, delimited by slashes, starting with magic
TextKeys ==
    {tA, <<>>, <<"/">>, <<"/", "/">>, <<"/", "a", "/">>, <<"/", "a", "/", "a", "/">>,
     <<"/", "(", "/">>, <<"/", "a">>, <<"a", "/">>, wLength,
     magic, magic \o <<"0">>, tA \o magic \o <<"1">>}

EntryValues == {Str(tA), Num(5), Fun, nFive}

\* literals of one entry: any key, written out or computed
Singles(c) ==
    {Literal(<<<<ke, v>>>>) :
        ke \in {Str(t) : t \in TextKeys \cup DOMAIN c} \cup RefNodes, v \in EntryValues}

MultiEntries ==
    {<<ke, v>> : ke \in {Str(tA), Str(<<"/", "a", "/">>), Str(wLength), nTitled},
                 v \in {Str(tA), Num(0), Fun}}

\* literals of no entry, or of several
Multis == {Literal(es) : es \in SeqsUpTo(MultiEntries, MaxEntries) \ [1..1 -> MultiEntries]}

Literals(c) == Singles(c) \cup Multis

-----------------------------------------------------------------------------
(* The state machine: the consumer calls one builder at a time and looks   *)
(* at what it returned.  last is the call being looked at: the builder, the *)
(* argument expressions as written, the arguments as passed, the result.   *)

NoCall == [op |-> "none", expr |-> <<>>, args |-> <<>>, res |-> Undefined]

Init ==
    /\ cache = NoCache
    /\ idCounter = 0
    /\ last = NoCall

\* the consumer holds no result: it is free to make a call
Idle == last.op = "none"

\* a call that leaves the cache alone
Call(op, args, res) ==
    /\ last' = [op |-> op, expr |-> args, args |-> args, res |-> res]
    /\ UNCHANGED <<cache, idCounter>>

\* a call whose argument is an object literal: its computed keys are coerced
\* first, which leaves the counter at ev.id, the cache at ev.cache and the
\* mapping ev.obj to pass
CallWith(op, lit, ev, res) ==
    /\ last' = [op |-> op, expr |-> <<lit>>, args |-> <<ev.obj>>, res |-> res]
    /\ cache' = ev.cache
    /\ idCounter' = ev.id

\* the literals the counter's bound leaves room for
Room(lits) == {lit \in lits : idCounter + computedKeys(lit) <= MaxMint}

\* String(s), `${s}`: a node used as text outside a literal
Coerce ==
    /\ Idle
    /\ idCounter < MaxMint
    /\ \E s \in RefNodes : \E t \in {toString(idCounter, cache, s)} :
             /\ last' = [op |-> "toString", expr |-> <<s>>, args |-> <<s>>,
                         res |-> Str(t.token)]
             /\ cache' = t.cache
             /\ idCounter' = t.id

CallLiterals ==
    /\ Idle
    /\ \/ \E v \in Values : Call("literals", <<v>>, literals(cache, v))
       \/ \E lit \in Room(Literals(cache)) :
             \E ev \in {evalLiteral(lit, idCounter, cache)} :
                CallWith("literals", lit, ev, literals(ev.cache, ev.obj))

CallString ==
    /\ Idle
    /\ \E v \in {Undefined, Str(tA), RegExp(tA), Num(5), nString} :
          Call("string", <<v>>, S_string(v))

CallNumber ==
    /\ Idle
    /\ \E v \in {Undefined, Num(5), Arr(<<Num(0), Num(5)>>), Str(tA)} :
          Call("number", <<v>>, S_number(v))

CallOr ==
    /\ Idle
    /\ \E args \in SeqsUpTo(ArgValues, MaxArgs) : Call("or", args, S_or(cache, args))

CallArray ==
    /\ Idle
    /\ \E args \in SeqsUpTo(ArgValues, MaxArgs) : Call("array", args, S_array(cache, args))

CallArrayOf ==
    /\ Idle
    /\ \E v \in Values : Call("arrayOf", <<v>>, S_arrayOf(cache, v))

CallFn ==
    /\ Idle
    /\ \E args \in SeqsUpTo(ArgValues, MaxArgs) : Call("fn", args, S_fn(cache, args))

CallTo ==
    /\ Idle
    /\ \E f \in {nFn, nFn0} : \E r \in Values : Call("to", <<f, r>>, S_to(f, r))

CallObject ==
    /\ Idle
    /\ \/ \E args \in SeqsUpTo(ArgValues, MaxArgs) \cup {<<v>> : v \in Values} :
             Call("object", args, S_object(cache, args))
       \/ \E lit \in Room(Literals(cache)) :
             \E ev \in {evalLiteral(lit, idCounter, cache)} :
                CallWith("object", lit, ev, S_object(ev.cache, <<ev.obj>>))

CallDict ==
    /\ Idle
    /\ \/ \E args \in SeqsUpTo(ArgValues, MaxArgs) \cup {<<v>> : v \in Values} :
             Call("dict", args, S_objectOf(cache, args))
       \/ \E lit \in Room(Literals(cache)) :
             \E ev \in {evalLiteral(lit, idCounter, cache)} :
                CallWith("dict", lit, ev, S_objectOf(ev.cache, <<ev.obj>>))

DescTexts == {Str(tNewT), Str(tNewD), Undefined}
DescSchemas == {nString, nTitled, nDescribed, nRole, nFn, Str(tA), Fun}

CallDesc ==
    /\ Idle
    /\ \/ \E t \in DescTexts, d \in DescTexts, s \in DescSchemas :
             Call("desc", <<t, d, s>>, S_desc(cache, <<t, d, s>>))
       \/ \E d \in DescTexts, s \in DescSchemas :
             Call("desc", <<d, s>>, S_desc(cache, <<d, s>>))

CallRole ==
    /\ Idle
    /\ \E s \in Nodes \cup {Str(tA), Undefined} :
          Call("role", <<Str(<<"m">>), s>>, S_role(Str(<<"m">>), s))

ReadBoolean == Idle /\ Call("boolean", <<>>, S_boolean)

ReadNullval == Idle /\ Call("nullval", <<>>, S_nullval)

\* the consumer is done with the result and goes on
Return ==
    /\ last.op # "none"
    /\ last' = NoCall
    /\ UNCHANGED <<cache, idCounter>>

Next ==
    \/ Coerce
    \/ CallLiterals
    \/ CallString
    \/ CallNumber
    \/ CallOr
    \/ CallArray
    \/ CallArrayOf
    \/ CallFn
    \/ CallTo
    \/ CallObject
    \/ CallDict
    \/ CallDesc
    \/ CallRole
    \/ ReadBoolean
    \/ ReadNullval
    \/ Return

Spec == Init /\ [][Next]_vars

-----------------------------------------------------------------------------
(* What the properties below read off a call *)

MappingOps == {"literals", "object", "dict"}

\* last is a call of literals, object or dict on an object literal
LiteralCall == last.op \in MappingOps /\ Len(last.expr) = 1 /\ last.expr[1].k = "literal"

\* last is a call whose arguments are values, written as passed
PlainCall == last.op # "none" /\ ~LiteralCall

IsComputed(e) == e[1].k # "string"

\* the nodes a call coerces to text, in order
CoercedNodes(call) ==
    IF call.op = "toString" THEN call.args
    ELSE IF call.op \in MappingOps /\ Len(call.expr) = 1 /\ call.expr[1].k = "literal"
    THEN [i \in DOMAIN SelectSeq(call.expr[1].entries, IsComputed) |->
             SelectSeq(call.expr[1].entries, IsComputed)[i][1]]
    ELSE <<>>

\* the tokens those coercions returned, in order: the text toString gave, or
\* the keys of the mapping passed that the literal does not write out
ReturnedTokens(call) ==
    IF call.op = "toString" THEN <<call.res.s>>
    ELSE IF call.op \in MappingOps /\ Len(call.expr) = 1 /\ call.expr[1].k = "literal"
    THEN LET written == {call.expr[1].entries[i][1].s :
                            i \in {j \in DOMAIN call.expr[1].entries :
                                      ~IsComputed(call.expr[1].entries[j])}}
             keys == [i \in DOMAIN call.args[1].entries |-> call.args[1].entries[i][1]]
             NotWritten(t) == t \notin written
         IN SelectSeq(keys, NotWritten)
    ELSE <<>>

\* the classification section 4.4 words: delimited by slashes, else starting
\* with the reserved prefix, else a plain string
StartsWith(k, prefix) == Len(k) >= Len(prefix) /\ SubSeq(k, 1, Len(prefix)) = prefix
Classified(k) ==
    IF k # <<>> /\ Head(k) = "/" /\ k[Len(k)] = "/" THEN "pattern"
    ELSE IF StartsWith(k, magic) THEN "reference" ELSE "string"

\* k without its first and its last character
Inner(k) == SubSeq(k, 2, Len(k) - 1)

IsBad(v) == v.k \in {"function", "boolean", "null", "undefined"}

NotBackslash(ch) == ch # "\\"

-----------------------------------------------------------------------------
(* Properties *)

\* C1: every textual coercion of a node desc returned mints a token that no
\* earlier coercion returned and adds exactly one cache entry, which maps
\* the token to the coerced node; n coercions (of one node or of several)
\* give n distinct tokens and n new entries.
C1_FreshTokenPerCoercion ==
    [][(last.op = "none" /\ last'.op # "none") =>
        LET nodes == CoercedNodes(last')
            toks == ReturnedTokens(last')
        IN /\ Len(toks) = Len(nodes)
           /\ \A i \in DOMAIN toks :
                 /\ toks[i] \notin DOMAIN cache
                 /\ toks[i] \in DOMAIN cache'
                 /\ cache'[toks[i]] = nodes[i]
                 /\ \A j \in DOMAIN toks : i # j => toks[i] # toks[j]
           /\ Cardinality(DOMAIN cache') = Cardinality(DOMAIN cache) + Len(nodes)]_vars

\* C1 witness: one literal used the same node as a key twice, and the cache
\* holds two tokens for it.
C1_Witness ==
    /\ LiteralCall
    /\ Len(CoercedNodes(last)) = 2
    /\ CoercedNodes(last)[1] = CoercedNodes(last)[2]
    /\ \E t1, t2 \in DOMAIN cache :
          t1 # t2 /\ cache[t1] = cache[t2] /\ cache[t1] = CoercedNodes(last)[1]

\* C2: the cache is append-only: a step removes no token and changes no
\* token's node, so resolving the token afterwards still gives the node it
\* was minted for.
C2_CacheAppendOnly ==
    [][\A t \in DOMAIN cache :
          /\ t \in DOMAIN cache'
          /\ cache'[t] = cache[t]
          /\ key(cache', Str(tA), t) = Arr(<<cache[t], S_string(Str(tA))>>)]_vars

\* C2 witness: after a second token was minted, a call wrote out the first
\* token as a key and got the first token's node as the key schema.
C2_Witness ==
    /\ idCounter = 2
    /\ LiteralCall
    /\ Len(last.expr[1].entries) = 1
    /\ last.expr[1].entries[1][1] = Str(uniqueId(magic, 1))
    /\ ~isErr(last.res)
    /\ last.res.items[3].items[1] = cache[uniqueId(magic, 1)]

\* C3: for a titled node s that desc returned, literals, object or dict on
\* the literal {[s]: v} mints a token classified as a reference and returns
\* a schema with exactly one pair, whose key schema is s itself and whose
\* value schema is literals(v); where literals(v) throws, so does the call.
C3_ReferenceKeyRoundTrip ==
    (/\ LiteralCall
     /\ Len(last.expr[1].entries) = 1
     /\ last.expr[1].entries[1][1] \in RefNodes
     /\ HasKey(last.expr[1].entries[1][1].items[2], wTitle))
    => LET s == last.expr[1].entries[1][1]
           lv == literals(cache, last.expr[1].entries[1][2])
       IN /\ Len(last.args[1].entries) = 1
          /\ keyType(last.args[1].entries[1][1]) = "reference"
          /\ IF isErr(lv) THEN last.res = lv
             ELSE /\ isSchema(last.res)
                  /\ Len(last.res.items) = 3
                  /\ last.res.items[3] = Arr(<<s, lv>>)

\* C3 witness: dict on {[s]: 5}, s titled, returned the pair [s, number(5)].
C3_Witness ==
    /\ LiteralCall
    /\ last.op = "dict"
    /\ last.expr[1].entries = <<<<nTitledFn, Num(5)>>>>
    /\ last.res.items[3] = Arr(<<nTitledFn, nFive>>)

\* C4 (as claimed): a call given a key that is classified as a reference and
\* has no cache entry throws, and returns no schema.
C4_UnresolvedReferenceThrows ==
    (/\ LiteralCall
     /\ \E i \in DOMAIN last.args[1].entries :
           /\ keyType(last.args[1].entries[i][1]) = "reference"
           /\ last.args[1].entries[i][1] \notin DOMAIN cache)
    => isErr(last.res)

\* C5: whatever a builder, a constant, to or literals returns is blessed.
C5_ResultsAreBlessed ==
    (last.op \notin {"none", "toString"} /\ ~isErr(last.res)) => isSchema(last.res)

\* C5 witness: f.to(r) returned a blessed node.
C5_Witness == last.op = "to" /\ isSchema(last.res) /\ last.args[2] = nString

\* C6 (as claimed): desc(T, D, schema) keeps the tag and the params of
\* schema and returns its options extended by title = T and description = D,
\* other keys kept, none undefined; desc(D, schema) sets the description and
\* adds no title.
C6_DescMergesMetadata ==
    (/\ last.op = "desc"
     /\ ~isErr(last.res)
     /\ isSchema(last.args[Len(last.args)])
     /\ \A i \in 1..(Len(last.args) - 1) : last.args[i].k = "string")
    => LET schema == last.args[Len(last.args)]
           old == schema.items[2]
           new == last.res.items[2]
       IN /\ last.res.items[1] = schema.items[1]
          /\ slice(last.res.items, 2, Len(last.res.items)) = slice(schema.items, 2, Len(schema.items))
          /\ Get(new, wDescription) = last.args[Len(last.args) - 1]
          /\ Len(last.args) = 3 => Get(new, wTitle) = last.args[1]
          /\ Len(last.args) = 2 => Get(new, wTitle) = Get(old, wTitle)
          /\ \A i \in DOMAIN old.entries :
                old.entries[i][1] \notin {wTitle, wDescription}
                    => Get(new, old.entries[i][1]) = old.entries[i][2]
          /\ \A i \in DOMAIN new.entries : new.entries[i][2] # Undefined

\* C7 (as claimed): keyType(k) is pattern iff k starts and ends with '/',
\* else reference iff k starts with the prefix, else string; key(v, k) is
\* [string(p), literals(v)] for a pattern key, the source of p being k
\* without its delimiters, and [string(k), literals(v)] for a string key.
C7_KeyResolutionAsClaimed ==
    LiteralCall =>
        \A i \in DOMAIN last.args[1].entries :
            LET k == last.args[1].entries[i][1]
                lv == literals(cache, last.args[1].entries[i][2])
            IN /\ keyType(k) = Classified(k)
               /\ (Classified(k) = "pattern" /\ ~isErr(lv)) =>
                     key(cache, last.args[1].entries[i][2], k)
                         = Arr(<<S_string([k |-> "regexp", source |-> Inner(k)]), lv>>)
               /\ (Classified(k) = "string" /\ ~isErr(lv)) =>
                     key(cache, last.args[1].entries[i][2], k) = Arr(<<S_string(Str(k)), lv>>)

\* C7 (amended): the classification is as claimed, and so is the pair of a
\* string key.  For a pattern key, key(v, k) throws a SyntaxError when k
\* without its delimiters is no regular expression; otherwise it is
\* [string(p), literals(v)], where the source of p is that text if it is not
\* empty and holds no '/', '(?:)' if it is empty, and in any other case the
\* text with a backslash before each '/'.  A call on a one-entry mapping
\* other than {length: number} returns that pair, or throws what key throws.
C7_KeyResolution ==
    LiteralCall =>
        \A i \in DOMAIN last.args[1].entries :
            LET k == last.args[1].entries[i][1]
                v == last.args[1].entries[i][2]
                lv == literals(cache, v)
                pair == key(cache, v, k)
            IN /\ keyType(k) = Classified(k)
               /\ (Classified(k) = "pattern" /\ ~RegExpSyntaxOk(Inner(k))) => pair = SyntaxError
               /\ (Classified(k) = "pattern" /\ RegExpSyntaxOk(Inner(k)) /\ ~isErr(lv)) =>
                     /\ ~isErr(pair)
                     /\ pair.items[2] = lv
                     /\ isSchema(pair.items[1])
                     /\ slice(pair.items[1].items, 0, 2) = <<Str(wString), EmptyObj>>
                     /\ Len(pair.items[1].items) = 3
                     /\ LET d == pair.items[1].items[3].items
                        IN /\ Len(d) = 2
                           /\ d[1] = Str(wPattern)
                           /\ d[2].k = "regexp"
                           /\ Inner(k) = <<>> => d[2].source = <<"(", "?", ":", ")">>
                           /\ (Inner(k) # <<>> /\ \A j \in DOMAIN Inner(k) : Inner(k)[j] # "/")
                                 => d[2].source = Inner(k)
                           /\ Inner(k) # <<>> =>
                                 /\ SelectSeq(d[2].source, NotBackslash) = Inner(k)
                                 /\ \A j \in DOMAIN d[2].source :
                                       d[2].source[j] = "/" => (j > 1 /\ d[2].source[j - 1] = "\\")
               /\ (Classified(k) = "string" /\ ~isErr(lv)) => pair = Arr(<<S_string(Str(k)), lv>>)
               /\ (Len(last.args[1].entries) = 1 /\ ~isArrayLike(last.args[1])) =>
                     IF isErr(pair) THEN last.res = pair
                     ELSE ~isErr(last.res) /\ slice(last.res.items, 2, Len(last.res.items)) = <<pair>>

\* C7 witness: object on {'/a/': 5} returned the pair of a pattern schema
\* whose source is 'a' and number(5).
C7_Witness ==
    /\ LiteralCall
    /\ last.op = "object"
    /\ last.args[1].entries = <<<<<<"/", "a", "/">>, Num(5)>>>>
    /\ last.res.items[3] = Arr(<<S_string([k |-> "regexp", source |-> tA]), nFive>>)

\* C8 (as claimed): literals on a plain mapping whose entries all resolve
\* returns a dict node for one entry and an object node for several, holding
\* the pair of each entry, in the mapping's order.
C8_LiteralsOfMapping ==
    (/\ LiteralCall
     /\ last.op = "literals"
     /\ last.args[1].entries # <<>>
     /\ \A i \in DOMAIN last.args[1].entries :
           ~isErr(key(cache, last.args[1].entries[i][2], last.args[1].entries[i][1])))
    => /\ ~isErr(last.res)
       /\ last.res.items[1] = Str(IF Len(last.args[1].entries) = 1 THEN wDict ELSE wObject)
       /\ Len(last.res.items) = 2 + Len(last.args[1].entries)
       /\ \A i \in DOMAIN last.args[1].entries :
             last.res.items[2 + i]
                 = key(cache, last.args[1].entries[i][2], last.args[1].entries[i][1])

\* C9: literals throws UnknownSchemaValue on a callable, a boolean, null and
\* undefined; a call of or, array, arrayOf, fn, object, dict or desc that
\* coerces such a value returns no schema: it throws, and what it throws is
\* UnknownSchemaValue unless an earlier argument or key already threw.
C9_UnknownValueFailsTheCall ==
    /\ (last.op \in {"literals", "arrayOf"} /\ PlainCall /\ IsBad(last.args[1]))
          => last.res = UnknownSchemaValue
    /\ (last.op = "desc" /\ IsBad(last.args[Len(last.args)])) => last.res = UnknownSchemaValue
    /\ (/\ last.op \in {"or", "array", "fn", "object", "dict"}
        /\ PlainCall
        /\ last.op \in {"object", "dict"} => Len(last.args) # 1)
       => \A i \in DOMAIN last.args :
             IsBad(last.args[i]) =>
                /\ isErr(last.res)
                /\ (\A j \in 1..(i - 1) : ~isErr(literals(cache, last.args[j])))
                      => last.res = UnknownSchemaValue
    /\ (LiteralCall /\ ~isArrayLike(last.args[1]))
       => \A i \in DOMAIN last.args[1].entries :
             IsBad(last.args[1].entries[i][2]) =>
                /\ isErr(last.res)
                /\ (/\ \A j \in 1..(i - 1) :
                          ~isErr(key(cache, last.args[1].entries[j][2],
                                     last.args[1].entries[j][1]))
                    /\ ~isErr(key(cache, Str(tA), last.args[1].entries[i][1])))
                      => last.res = UnknownSchemaValue

\* C9 witness: or('a', () => {}) threw UnknownSchemaValue on its second
\* argument.
C9_Witness ==
    /\ last.op = "or"
    /\ last.args = <<Str(tA), Fun>>
    /\ last.res = UnknownSchemaValue

\* C10 (as claimed): f.to(r) is f with literals(r) in the return slot, the
\* tag, the options and the argument schemas of f kept.
C10_ToCoercesReturnSchema ==
    (last.op = "to" /\ ~isErr(literals(cache, last.args[2])))
    => last.res.items
           = slice(last.args[1].items, 0, 2) \o <<literals(cache, last.args[2])>>
                 \o slice(last.args[1].items, 3, Len(last.args[1].items))

====
